---- MODULE Spec2Model ----
(***************************************************************************)
(* Photo geolocation service: hypothesis aggregation (GeolocationService),  *)
(* forward geocoding (GeocodingService), landmark detection (VisionService) *)
(* and the two-tier result cache (CacheManager).                            *)
(*                                                                          *)
(* Units.  Coordinates are integers in 1e-5 degree, confidences integers in *)
(* thousandths (1000 = 1.0), source weights in tenths, distances in metres, *)
(* times in seconds.  An Optional[T] value is a sequence of length 0 (None) *)
(* or 1 (the value).                                                        *)
(***************************************************************************)
EXTENDS Integers, Sequences, FiniteSets, TLC

VARIABLES
    clients,           \* which provider clients / API keys the services were built with
    redis_client,      \* CacheManager.redis_client is set (connect() succeeded)
    redis_store,       \* contents of the Redis server: key -> [value, expires_at]
    memory_cache,      \* CacheManager.memory_cache: key -> [value, expires_at]
    processing_stats,  \* GeolocationService.processing_stats
    now,               \* wall clock (datetime.now()), seconds
    upload_dir,        \* the files present in the upload directory (settings.upload_path)
    tasks,             \* the process_image coroutines started: id -> [pc, ...]
    earlier,           \* history: <<content, request>> -> the response of the latest
                       \* successful process_image call made with them
    last               \* the most recent operation: its inputs and what it returned

vars == <<clients, redis_client, redis_store, memory_cache, processing_stats, now,
          upload_dir, tasks, earlier, last>>

----------------------------------------------------------------------------
(* Bounds of the model *)

MaxCalls == 2
MaxTime == 3600
TickStep == 1800
MaxLandmarks == 2
MaxRanked == 2
MaxCrowd == 6
MaxDuplicates == 3
MaxTasks == 2

----------------------------------------------------------------------------
(* Program constants *)

cache_ttl == 3600
RESULT_TTL == 3600
landmark_confidence_threshold == 600
NEARBY_KM == 50
MAX_GEOCODING_RESULTS == 10

None == <<>>
Some(x) == <<x>>

Min(a, b) == IF a < b THEN a ELSE b
Abs(a) == IF a < 0 THEN -a ELSE a

EXIF_GPS == "exif_gps"
LANDMARK_DETECTION == "landmark_detection"
OCR_GEOCODING == "ocr_geocoding"
REVERSE_GEOCODING == "reverse_geocoding"
DataSource == {EXIF_GPS, LANDMARK_DETECTION, OCR_GEOCODING, REVERSE_GEOCODING}

ProcessingMode == {"fast", "standard", "comprehensive"}

LocationHypothesis(lat, lon, conf, src, desc, addr) ==
    [latitude |-> lat, longitude |-> lon, confidence |-> conf, source |-> src,
     description |-> desc, address |-> addr]

\* Field(..., ge=-90, le=90), Field(..., ge=-180, le=180), Field(..., ge=0, le=1):
\* constructing a LocationHypothesis outside these ranges raises ValidationError.
HypothesisFieldsValid(lat, lon, conf) ==
    /\ -9000000 <= lat /\ lat <= 9000000
    /\ -18000000 <= lon /\ lon <= 18000000
    /\ 0 <= conf /\ conf <= 1000

----------------------------------------------------------------------------
(* GeoUtils *)

validate_coordinates(lat, lon) ==
    /\ -9000000 <= lat /\ lat <= 9000000
    /\ -18000000 <= lon /\ lon <= 18000000

RECURSIVE IsqrtIn(_, _, _)
IsqrtIn(n, lo, hi) ==
    IF lo >= hi THEN lo
    ELSE LET mid == (lo + hi + 1) \div 2
         IN  IF mid * mid <= n THEN IsqrtIn(n, mid, hi) ELSE IsqrtIn(n, lo, mid - 1)

Isqrt(n) == IsqrtIn(n, 0, 30000)

\* geodesic(point1, point2).kilometers for points within a few metres of the
\* equator and less than 3 degrees of longitude apart, where one unit of
\* longitude is 1.113 m and one unit of latitude 1.106 m.  The result is in
\* metres, to the nearest 10 m (the legs are taken in decametres).
calculate_distance(point1, point2) ==
    LET dy == (Abs(point1[1] - point2[1]) * 1106) \div 10000
        dx == (Abs(point1[2] - point2[2]) * 1113) \div 10000
    IN  10 * Isqrt(dx * dx + dy * dy)

\* round(x, 4) on a coordinate: to the nearest multiple of 1e-4 degree.
Round4(x) ==
    LET r == x % 10
        base == x - r
    IN  IF r < 5 THEN base
        ELSE IF r > 5 THEN base + 10
        ELSE IF (base \div 10) % 2 = 0 THEN base ELSE base + 10

----------------------------------------------------------------------------
(* Python list helpers *)

Take(s, n) == SubSeq(s, 1, Min(n, Len(s)))

\* Position after the last element whose confidence is >= c, in a list already
\* in non-increasing order of confidence.
RECURSIVE InsertPos(_, _)
InsertPos(s, c) ==
    IF s = <<>> \/ Head(s).confidence < c THEN 0 ELSE 1 + InsertPos(Tail(s), c)

InsertStable(s, h) ==
    LET k == InsertPos(s, h.confidence)
    IN  SubSeq(s, 1, k) \o <<h>> \o SubSeq(s, k + 1, Len(s))

RECURSIVE SortFrom(_, _)
SortFrom(done, rest) ==
    IF rest = <<>> THEN done ELSE SortFrom(InsertStable(done, Head(rest)), Tail(rest))

\* sorted(hypotheses, key=lambda x: x.confidence, reverse=True): a stable sort,
\* elements of equal confidence keep their order in the input.
\* the same sort when elements of equal confidence come out in reverse order
SortByConfidenceDesc_TiesReversed(s) ==
    SortFrom(<<>>, [i \in 1..Len(s) |-> s[Len(s) + 1 - i]])

SortByConfidenceDesc(s) == SortFrom(<<>>, s)

RECURSIVE Concat(_)
Concat(ss) == IF ss = <<>> THEN <<>> ELSE Head(ss) \o Concat(Tail(ss))

----------------------------------------------------------------------------
(* VisionService.  A response of the Vision API is                          *)
(*   [raises, error_message, annotations]                                   *)
(* raises: the call (or reading the file) raised; error_message: the        *)
(* response.error.message, "" when there is none.                           *)

\* One landmark annotation is [score, description, locations], locations a
\* sequence of <<lat, lon>>.
RECURSIVE LandmarkLocations(_, _)
LandmarkLocations(landmark, locations) ==
    IF locations = <<>> THEN <<>>
    ELSE <<LocationHypothesis(Head(locations)[1], Head(locations)[2], landmark.score,
                              LANDMARK_DETECTION, landmark.description, "")>>
         \o LandmarkLocations(landmark, Tail(locations))

RECURSIVE LandmarkHypotheses(_)
LandmarkHypotheses(annotations) ==
    IF annotations = <<>> THEN <<>>
    ELSE (IF Head(annotations).score >= landmark_confidence_threshold
          THEN LandmarkLocations(Head(annotations), Head(annotations).locations)
          ELSE <<>>)
         \o LandmarkHypotheses(Tail(annotations))

AllFieldsValid(hs) ==
    \A i \in 1..Len(hs) :
        HypothesisFieldsValid(hs[i].latitude, hs[i].longitude, hs[i].confidence)

detect_landmarks(available, response) ==
    IF ~available THEN <<>>
    ELSE IF response.raises \/ response.error_message # "" THEN <<>>
    ELSE LET hypotheses == LandmarkHypotheses(response.annotations)
         IN  \* a ValidationError on any one location is caught by the
             \* function-wide except: the whole list is lost
             IF AllFieldsValid(hypotheses) THEN hypotheses ELSE <<>>

\* One text annotation is [length, candidates]: the length of its stripped
\* description and the location candidates _extract_location_candidates
\* finds in it, in the order of list(set(candidates)).
RECURSIVE LongTexts(_)
LongTexts(annotations) ==
    IF annotations = <<>> THEN <<>>
    ELSE (IF Head(annotations).length > 2 THEN <<Head(annotations)>> ELSE <<>>)
         \o LongTexts(Tail(annotations))

detect_text(available, response) ==
    IF ~available THEN <<>>
    ELSE IF response.raises \/ response.error_message # "" THEN <<>>
    ELSE LongTexts(response.annotations)

detect_objects(available, response) ==
    IF ~available THEN <<>>
    ELSE IF response.raises \/ response.error_message # "" THEN <<>>
    ELSE response.annotations

----------------------------------------------------------------------------
(* GeocodingService.  A geocoder's answer to one query is                   *)
(*   [raises, status_code, results]                                         *)
(* results a sequence of [lat, lon, confidence, address]; confidence is     *)
(* LocationIQ's importance in thousandths, OpenCage's confidence on its    *)
(* scale of 0..10.  A provider                                             *)
(* function returns [none, list]: none when the Python function falls off   *)
(* its end and returns None instead of a list.                              *)

Returned(list) == [none |-> FALSE, list |-> list]
ReturnedNone == [none |-> TRUE, list |-> <<>>]

\* The hypotheses built from a geocoder's results.  fixed_confidence >= 0 is
\* the constant confidence the provider function assigns; otherwise the
\* confidence is the result's own figure times scale (thousandths per unit).
RECURSIVE OcrHypotheses(_, _, _)
OcrHypotheses(results, fixed_confidence, scale) ==
    IF results = <<>> THEN <<>>
    ELSE <<LocationHypothesis(
               Head(results).lat, Head(results).lon,
               IF fixed_confidence >= 0 THEN fixed_confidence
               ELSE Head(results).confidence * scale,
               OCR_GEOCODING, Head(results).address, Head(results).address)>>
         \o OcrHypotheses(Tail(results), fixed_confidence, scale)

RECURSIVE ValidCoordinateResults(_)
ValidCoordinateResults(results) ==
    IF results = <<>> THEN <<>>
    ELSE (IF validate_coordinates(Head(results).lat, Head(results).lon)
          THEN <<Head(results)>> ELSE <<>>)
         \o ValidCoordinateResults(Tail(results))

_geocode_google_maps(client, answer) ==
    IF ~client THEN <<>>
    ELSE IF answer.raises THEN <<>>
    ELSE LET hypotheses == OcrHypotheses(answer.results, 800, 0)
         IN  IF AllFieldsValid(hypotheses) THEN hypotheses ELSE <<>>

_geocode_locationiq(api_key, answer) ==
    IF ~api_key THEN Returned(<<>>)
    ELSE IF answer.raises THEN Returned(<<>>)
    ELSE IF answer.status_code = 200
    THEN LET hypotheses == OcrHypotheses(ValidCoordinateResults(answer.results), -1, 1)
         IN  IF AllFieldsValid(hypotheses) THEN Returned(hypotheses) ELSE Returned(<<>>)
    ELSE ReturnedNone

_geocode_opencage(api_key, answer) ==
    IF ~api_key THEN Returned(<<>>)
    ELSE IF answer.raises THEN Returned(<<>>)
    ELSE IF answer.status_code = 200
    THEN LET hypotheses == OcrHypotheses(answer.results, -1, 100)
         IN  IF AllFieldsValid(hypotheses) THEN Returned(hypotheses) ELSE Returned(<<>>)
    ELSE ReturnedNone

_geocode_nominatim(client, answer) ==
    IF ~client THEN <<>>
    ELSE IF answer.raises THEN <<>>
    ELSE LET hypotheses == OcrHypotheses(answer.results, 500, 0)
         IN  IF AllFieldsValid(hypotheses) THEN hypotheses ELSE <<>>

coord_key(h) == <<Round4(h.latitude), Round4(h.longitude)>>

RECURSIVE DedupFrom(_, _, _)
DedupFrom(hypotheses, seen, unique_hypotheses) ==
    IF hypotheses = <<>> THEN unique_hypotheses
    ELSE IF coord_key(Head(hypotheses)) \in seen
         THEN DedupFrom(Tail(hypotheses), seen, unique_hypotheses)
         ELSE DedupFrom(Tail(hypotheses), seen \cup {coord_key(Head(hypotheses))},
                        Append(unique_hypotheses, Head(hypotheses)))

_deduplicate_hypotheses(hypotheses) == DedupFrom(hypotheses, {}, <<>>)

\* The body of the inner loop of geocode_text_list for one candidate: the
\* candidate's hypotheses, or raised (list.extend(None) is a TypeError).
GeocodeCandidate(geocoders, answers) ==
    LET google_results == _geocode_google_maps(geocoders.google_maps, answers.google)
        locationiq_results == _geocode_locationiq(geocoders.locationiq, answers.locationiq)
        opencage_results == _geocode_opencage(geocoders.opencage, answers.opencage)
        first == google_results \o locationiq_results.list \o opencage_results.list
    IN  IF locationiq_results.none \/ opencage_results.none
        THEN [raised |-> TRUE, value |-> <<>>]
        ELSE [raised |-> FALSE,
              value |-> IF first = <<>> /\ geocoders.nominatim
                        THEN _geocode_nominatim(geocoders.nominatim, answers.nominatim)
                        ELSE first]

RECURSIVE GeocodeCandidates(_, _, _)
GeocodeCandidates(geocoders, candidates, geo) ==
    IF candidates = <<>> THEN [raised |-> FALSE, value |-> <<>>]
    ELSE LET one == GeocodeCandidate(geocoders, geo[Head(candidates)])
             rest == GeocodeCandidates(geocoders, Tail(candidates), geo)
         IN  IF one.raised \/ rest.raised THEN [raised |-> TRUE, value |-> <<>>]
             ELSE [raised |-> FALSE, value |-> one.value \o rest.value]

RECURSIVE CandidatesOf(_)
CandidatesOf(texts) ==
    IF texts = <<>> THEN <<>> ELSE Head(texts).candidates \o CandidatesOf(Tail(texts))

\* geo maps a candidate string to the four geocoders' answers for it.
geocode_text_list(geocoders, texts, geo) ==
    LET hypotheses == GeocodeCandidates(geocoders, CandidatesOf(texts), geo)
    IN  IF hypotheses.raised THEN hypotheses
        ELSE [raised |-> FALSE,
              value |-> Take(SortByConfidenceDesc(_deduplicate_hypotheses(hypotheses.value)),
                             MAX_GEOCODING_RESULTS)]

\* reverse is [google, nominatim], each [raises, found, address]: whether the
\* lookup raised, whether it found a place, and the place's address ("" when
\* the provider gives none).  The result is Optional[address].
reverse_geocode(geocoders, reverse) ==
    IF geocoders.google_maps /\ ~reverse.google.raises /\ reverse.google.found
    THEN Some(reverse.google.address)
    ELSE IF geocoders.nominatim /\ ~reverse.nominatim.raises /\ reverse.nominatim.found
    THEN Some(reverse.nominatim.address)
    ELSE None

----------------------------------------------------------------------------
(* ImageProcessor.  An image file is                                        *)
(*   [filename, content, exists, size_bytes, format, has_exif, gps, in_cwd] *)
(* content: the bytes (an identifier); format: what PIL reports, "" when    *)
(* the file cannot be decoded; gps: Optional <<lat, lon>> of the EXIF GPS   *)
(* tags; in_cwd: the bare filename resolves, from the working directory,    *)
(* to this same file.                                                       *)

max_size == 10485760
allowed_formats == {"JPEG", "PNG", "WEBP", "TIFF"}

\* validation without the size limit
validate_image_AnySize(image) ==
    IF ~image.exists THEN [is_valid |-> FALSE, error_msg |-> "File does not exist"]
    ELSE IF image.format = ""
    THEN [is_valid |-> FALSE, error_msg |-> "Invalid image"]
    ELSE IF image.format \notin allowed_formats
    THEN [is_valid |-> FALSE, error_msg |-> "Unsupported format"]
    ELSE [is_valid |-> TRUE, error_msg |-> ""]

validate_image(image) ==
    IF ~image.exists THEN [is_valid |-> FALSE, error_msg |-> "File does not exist"]
    ELSE IF image.size_bytes > max_size
    THEN [is_valid |-> FALSE, error_msg |-> "File too large"]
    ELSE IF image.format = ""
    THEN [is_valid |-> FALSE, error_msg |-> "Invalid image"]
    ELSE IF image.format \notin allowed_formats
    THEN [is_valid |-> FALSE, error_msg |-> "Unsupported format"]
    ELSE [is_valid |-> TRUE, error_msg |-> ""]

\* hashlib.sha256(f.read()).hexdigest(), "" when the file cannot be read.
\* SHA-256 is taken to be injective on the contents of the model.
generate_hash(image) == IF image.exists THEN image.content ELSE ""

----------------------------------------------------------------------------
(* GeolocationService: the helpers of process_image *)

_extract_image_metadata(image) ==
    IF image.exists
    THEN [filename |-> image.filename, size_bytes |-> image.size_bytes,
          format |-> image.format,
          has_exif |-> image.format # "" /\ image.has_exif,
          has_gps |-> image.format # "" /\ image.has_exif /\ image.gps # None]
    ELSE [filename |-> image.filename, size_bytes |-> 0, format |-> "unknown",
          has_exif |-> FALSE, has_gps |-> FALSE]

\* The metadata is read a second time from Path(image_metadata.filename), the
\* bare file name: when that does not resolve, stat() raises and the except
\* branch returns no hypothesis.
_extract_exif_coordinates(image, image_metadata) ==
    IF ~image_metadata.has_gps THEN <<>>
    ELSE IF ~image.in_cwd THEN <<>>
    ELSE IF HypothesisFieldsValid(image.gps[1][1], image.gps[1][2], 1000)
    THEN <<LocationHypothesis(image.gps[1][1], image.gps[1][2], 1000, EXIF_GPS,
                              "GPS coordinates from image EXIF data", "")>>
    ELSE <<>>

RECURSIVE _filter_hypotheses(_, _)
_filter_hypotheses(hypotheses, min_confidence) ==
    IF hypotheses = <<>> THEN <<>>
    ELSE (IF Head(hypotheses).confidence >= min_confidence
          THEN <<Head(hypotheses)>> ELSE <<>>)
         \o _filter_hypotheses(Tail(hypotheses), min_confidence)

\* source_weights.get(hypothesis.source, 0.5), in tenths
source_weight(source) ==
    CASE source = EXIF_GPS -> 10
      [] source = LANDMARK_DETECTION -> 9
      [] source = OCR_GEOCODING -> 7
      [] source = REVERSE_GEOCODING -> 8
      [] OTHER -> 5

\* the weighting applied twice to every hypothesis
Weighted_Twice(hypotheses) ==
    [i \in 1..Len(hypotheses) |->
        [hypotheses[i] EXCEPT
            !.confidence = Min(1000, (hypotheses[i].confidence
                                      * source_weight(hypotheses[i].source)
                                      * source_weight(hypotheses[i].source)) \div 100)]]

\* hypothesis.confidence = min(1.0, base_confidence * source_weight)
Weighted(hypotheses) ==
    [i \in 1..Len(hypotheses) |->
        [hypotheses[i] EXCEPT
            !.confidence = Min(1000, (hypotheses[i].confidence
                                      * source_weight(hypotheses[i].source)) \div 10)]]

nearby_count(hypotheses, i) ==
    Cardinality({j \in 1..Len(hypotheses) :
        /\ i # j
        /\ calculate_distance(<<hypotheses[i].latitude, hypotheses[i].longitude>>,
                              <<hypotheses[j].latitude, hypotheses[j].longitude>>)
               < NEARBY_KM * 1000})

\* a boost that grows with every nearby hypothesis
boost_Uncapped(count) == count * 20

\* boost = min(0.1, nearby_count * 0.02)
boost(count) == Min(100, count * 20)

Boosted(hypotheses) ==
    IF Len(hypotheses) > 1
    THEN [i \in 1..Len(hypotheses) |->
            IF nearby_count(hypotheses, i) > 0
            THEN [hypotheses[i] EXCEPT
                    !.confidence = Min(1000, hypotheses[i].confidence
                                             + boost(nearby_count(hypotheses, i)))]
            ELSE hypotheses[i]]
    ELSE hypotheses

_rank_hypotheses(hypotheses) ==
    IF hypotheses = <<>> THEN <<>>
    ELSE SortByConfidenceDesc(Boosted(Weighted(hypotheses)))

\* an enrichment that looks every hypothesis up and overwrites its address
_enhance_with_addresses_Overwrites(hypotheses, geocoders, reverse) ==
    [i \in 1..Len(hypotheses) |->
        LET reverse_result == reverse_geocode(geocoders, reverse)
        IN  IF reverse_result # None /\ reverse_result[1] # ""
            THEN [hypotheses[i] EXCEPT !.address = reverse_result[1]]
            ELSE hypotheses[i]]

\* The coordinates _enhance_with_addresses passes to reverse_geocode, in the
\* order of the calls (lines 248-252)
RECURSIVE reverse_geocode_calls(_)
reverse_geocode_calls(hypotheses) ==
    IF hypotheses = <<>> THEN <<>>
    ELSE (IF Head(hypotheses).address = ""
          THEN <<<<Head(hypotheses).latitude, Head(hypotheses).longitude>>>>
          ELSE <<>>)
         \o reverse_geocode_calls(Tail(hypotheses))

\* Every lookup of one run gets the answer `reverse` (see reverse_geocode).
_enhance_with_addresses(hypotheses, geocoders, reverse) ==
    [i \in 1..Len(hypotheses) |->
        IF hypotheses[i].address = ""
        THEN LET reverse_result == reverse_geocode(geocoders, reverse)
             IN  IF reverse_result # None /\ reverse_result[1] # ""
                 THEN [hypotheses[i] EXCEPT !.address = reverse_result[1]]
                 ELSE hypotheses[i]
        ELSE hypotheses[i]]

\* One object annotation is [name, location_like]: location_like says that
\* one of location_objects ('Tower', 'Bridge', 'Church', ...) occurs in the
\* lower-cased name.

\* an object path that turns a location-like object into a hypothesis
_process_objects_Landmarks(objects) ==
    IF objects = <<>> THEN <<>>
    ELSE IF Head(objects).location_like
    THEN <<LocationHypothesis(0, 0, 900, LANDMARK_DETECTION, Head(objects).name, "")>>
    ELSE <<>>

\* The loop over the objects only tests each name (the branch is `pass`);
\* the list returned is the empty list created before the loop.
RECURSIVE ProcessObjectsFrom(_, _)
ProcessObjectsFrom(objects, hypotheses) ==
    IF objects = <<>> THEN hypotheses
    ELSE IF Head(objects).location_like
    THEN ProcessObjectsFrom(Tail(objects), hypotheses)
    ELSE ProcessObjectsFrom(Tail(objects), hypotheses)

_process_objects(objects) == ProcessObjectsFrom(objects, <<>>)

----------------------------------------------------------------------------
(* CacheManager.  Each operation is given the state of the two tiers and    *)
(* returns the new state with its result.  fails: the Redis command of this *)
(* call raises (server unreachable, timeout).  raised: an exception leaves  *)
(* the operation; every body is inside try/except Exception, so none does.  *)

Put(dict, key, item) ==
    [k \in (DOMAIN dict) \cup {key} |-> IF k = key THEN item ELSE dict[k]]

Remove(dict, key) == [k \in (DOMAIN dict) \ {key} |-> dict[k]]

EmptyDict == [k \in {} |-> 0]

\* f"{prefix}:{sha256(content)[:16]}": the key stands for the string hashed
generate_key(data, prefix) == <<prefix, data>>

\* redis GET: the value of a key that has not expired
RedisGet(store, key, t) ==
    IF key \in DOMAIN store /\ t < store[key].expires_at
    THEN Some(store[key].value) ELSE None

MemoryGet(memory, key, t) ==
    IF key \in DOMAIN memory
    THEN IF t < memory[key].expires_at
         THEN [result |-> Some(memory[key].value), memory |-> memory]
         ELSE [result |-> None, memory |-> Remove(memory, key)]
    ELSE [result |-> None, memory |-> memory]

CacheGet(client, store, memory, key, fails, t) ==
    IF client /\ fails
    THEN [result |-> None, memory |-> memory, raised |-> FALSE]
    ELSE IF client /\ RedisGet(store, key, t) # None
    THEN [result |-> RedisGet(store, key, t), memory |-> memory, raised |-> FALSE]
    ELSE [result |-> MemoryGet(memory, key, t).result,
          memory |-> MemoryGet(memory, key, t).memory, raised |-> FALSE]

\* ttl = ttl or self.ttl: None and 0 both select the default.  ttl is
\* Optional[int].
EffectiveTtl(ttl) == IF ttl = None \/ ttl = Some(0) THEN cache_ttl ELSE ttl[1]

CacheSet(client, store, memory, key, value, ttl, fails, t) ==
    IF client /\ fails
    THEN [result |-> FALSE, store |-> store, memory |-> memory, raised |-> FALSE]
    ELSE [result |-> TRUE,
          store |-> IF client
                    THEN Put(store, key, [value |-> value,
                                          expires_at |-> t + EffectiveTtl(ttl)])
                    ELSE store,
          memory |-> Put(memory, key, [value |-> value,
                                       expires_at |-> t + EffectiveTtl(ttl)]),
          raised |-> FALSE]

CacheDelete(client, store, memory, key, fails) ==
    IF client /\ fails
    THEN [result |-> FALSE, store |-> store, memory |-> memory, raised |-> FALSE]
    ELSE [result |-> TRUE,
          store |-> IF client THEN Remove(store, key) ELSE store,
          memory |-> Remove(memory, key),
          raised |-> FALSE]

\* a clear that empties the fast tier alone
CacheClear_MemoryOnly(client, store, memory, fails) ==
    IF client /\ fails
    THEN [result |-> FALSE, store |-> store, memory |-> memory, raised |-> FALSE]
    ELSE [result |-> TRUE, store |-> store, memory |-> EmptyDict, raised |-> FALSE]

CacheClear(client, store, memory, fails) ==
    IF client /\ fails
    THEN [result |-> FALSE, store |-> store, memory |-> memory, raised |-> FALSE]
    ELSE [result |-> TRUE,
          store |-> IF client THEN EmptyDict ELSE store,
          memory |-> EmptyDict,
          raised |-> FALSE]

----------------------------------------------------------------------------
(* GeolocationService.process_image                                         *)
(*                                                                          *)
(* A request is [mode, min_confidence, max_results, include_metadata,       *)
(* include_address].  env is what the outside world answers during the      *)
(* call: [landmark, text, objects, geo, reverse, elapsed_ms,                *)
(* redis_get_fails, redis_set_fails].                                       *)

\* text detection in every mode
text_enabled_AnyMode(providers, request) == providers.vision

\* Lines 78 and 84: text detection runs inside the branch of an available
\* vision service, in the modes standard and comprehensive
text_enabled(providers, request) ==
    providers.vision /\ request.mode \in {"standard", "comprehensive"}

\* Lines 95-96
objects_enabled(providers, request) ==
    providers.vision /\ request.mode = "comprehensive"

\* Lines 66-100: validation and the collection of the candidates.
\* raised: an exception reaches the except branch of process_image.
Collect(providers, image, request, env) ==
    LET validity == validate_image(image)
        image_metadata == _extract_image_metadata(image)
        exif_hypotheses == _extract_exif_coordinates(image, image_metadata)
        landmark_hypotheses == detect_landmarks(providers.vision, env.landmark)
        with_text == text_enabled(providers, request)
        texts == IF with_text THEN detect_text(providers.vision, env.text) ELSE <<>>
        geocoding == IF texts # <<>>
                     THEN geocode_text_list(providers, texts, env.geo)
                     ELSE [raised |-> FALSE, value |-> <<>>]
        with_objects == objects_enabled(providers, request)
        object_hypotheses ==
            IF with_objects
            THEN _process_objects(detect_objects(providers.vision, env.objects))
            ELSE <<>>
    IN  IF ~validity.is_valid
        THEN [raised |-> TRUE, error |-> "Invalid image", apis_used |-> <<>>,
              all_hypotheses |-> <<>>, image_metadata |-> image_metadata,
              landmark_results_count |-> 0, text_results_count |-> 0,
              geocoding_queries_count |-> 0]
        ELSE IF geocoding.raised
        THEN [raised |-> TRUE, error |-> "'NoneType' object is not iterable",
              apis_used |-> <<"google_vision_landmark", "google_vision_text">>,
              all_hypotheses |-> <<>>, image_metadata |-> image_metadata,
              landmark_results_count |-> Len(landmark_hypotheses),
              text_results_count |-> Len(texts),
              geocoding_queries_count |-> 0]
        ELSE [raised |-> FALSE, error |-> "",
              apis_used |->
                  (IF providers.vision THEN <<"google_vision_landmark">> ELSE <<>>)
                  \o (IF with_text THEN <<"google_vision_text">> ELSE <<>>)
                  \o (IF texts # <<>> THEN <<"geocoding_services">> ELSE <<>>)
                  \o (IF with_objects THEN <<"google_vision_objects">> ELSE <<>>),
              all_hypotheses |-> exif_hypotheses \o landmark_hypotheses
                                 \o geocoding.value \o object_hypotheses,
              image_metadata |-> image_metadata,
              landmark_results_count |-> Len(landmark_hypotheses),
              text_results_count |-> Len(texts),
              geocoding_queries_count |-> IF texts # <<>> THEN Len(texts) ELSE 0]

\* Lines 102-105: filter, rank, truncate
Truncated(request, all_hypotheses) ==
    Take(_rank_hypotheses(_filter_hypotheses(all_hypotheses, request.min_confidence)),
         request.max_results)

\* Lines 102-110: filter, rank, truncate, enrich
Reduce(providers, request, env, all_hypotheses) ==
    LET truncated == Truncated(request, all_hypotheses)
    IN  IF request.include_address
        THEN _enhance_with_addresses(truncated, providers, env.reverse)
        ELSE truncated

Reduced(providers, request, env, collected) ==
    [raised |-> collected.raised, error |-> collected.error,
     apis_used |-> collected.apis_used,
     hypotheses |-> IF collected.raised THEN <<>>
                    ELSE Reduce(providers, request, env, collected.all_hypotheses),
     reverse_lookups |-> IF collected.raised \/ ~request.include_address THEN <<>>
                         ELSE reverse_geocode_calls(
                                  Truncated(request, collected.all_hypotheses)),
     image_metadata |-> collected.image_metadata,
     landmark_results_count |-> collected.landmark_results_count,
     text_results_count |-> collected.text_results_count,
     geocoding_queries_count |-> collected.geocoding_queries_count]

\* Lines 66-110: the path after a cache miss, up to best_guess
Aggregate(providers, image, request, env) ==
    Reduced(providers, request, env, Collect(providers, image, request, env))

ProcessingMetadata(run, elapsed_ms, error_messages) ==
    [processing_time_ms |-> elapsed_ms, apis_used |-> run.apis_used,
     landmark_results_count |-> run.landmark_results_count,
     text_results_count |-> run.text_results_count,
     geocoding_queries_count |-> run.geocoding_queries_count,
     cache_hit |-> FALSE, error_messages |-> error_messages]

\* a response whose best guess is the last hypothesis
SuccessResponse_LastIsBest(run, request, request_id, elapsed_ms, t) ==
    [success |-> TRUE, request_id |-> request_id,
     hypotheses |-> run.hypotheses,
     best_guess |-> IF run.hypotheses # <<>>
                    THEN Some(run.hypotheses[Len(run.hypotheses)]) ELSE None,
     image_metadata |-> IF request.include_metadata THEN Some(run.image_metadata) ELSE None,
     processing_metadata |-> IF request.include_metadata
                             THEN Some(ProcessingMetadata(run, elapsed_ms, <<>>))
                             ELSE None,
     error_message |-> None, processed_at |-> t]

\* a response that reports a run without hypotheses as a failure
SuccessResponse_EmptyIsFailure(run, request, request_id, elapsed_ms, t) ==
    [success |-> run.hypotheses # <<>>, request_id |-> request_id,
     hypotheses |-> run.hypotheses,
     best_guess |-> IF run.hypotheses # <<>> THEN Some(run.hypotheses[1]) ELSE None,
     image_metadata |-> IF request.include_metadata THEN Some(run.image_metadata) ELSE None,
     processing_metadata |-> IF request.include_metadata
                             THEN Some(ProcessingMetadata(run, elapsed_ms, <<>>))
                             ELSE None,
     error_message |-> IF run.hypotheses # <<>> THEN None ELSE Some("No location found"),
     processed_at |-> t]

\* Lines 110-122: the response of a run that raised nothing
SuccessResponse(run, request, request_id, elapsed_ms, t) ==
    [success |-> TRUE, request_id |-> request_id,
     hypotheses |-> run.hypotheses,
     best_guess |-> IF run.hypotheses # <<>> THEN Some(run.hypotheses[1]) ELSE None,
     image_metadata |-> IF request.include_metadata THEN Some(run.image_metadata) ELSE None,
     processing_metadata |-> IF request.include_metadata
                             THEN Some(ProcessingMetadata(run, elapsed_ms, <<>>))
                             ELSE None,
     error_message |-> None, processed_at |-> t]

\* Lines 134-150: the response of the except branch
FailureResponse(run, error, request, request_id, elapsed_ms, t) ==
    [success |-> FALSE, request_id |-> request_id, hypotheses |-> <<>>,
     best_guess |-> None, image_metadata |-> None,
     processing_metadata |-> IF request.include_metadata
                             THEN Some(ProcessingMetadata(run, elapsed_ms, <<error>>))
                             ELSE None,
     error_message |-> Some(error), processed_at |-> t]

\* GeolocationService.get_stats, lines 280-295, without the average time;
\* success_rate is in thousandths.
get_stats(stats) ==
    [total_requests |-> stats.total_requests,
     successful_requests |-> stats.successful_requests,
     failed_requests |-> stats.failed_requests,
     success_rate |-> IF stats.total_requests > 0
                      THEN (stats.successful_requests * 1000) \div stats.total_requests
                      ELSE 0]

CacheKey(image, request) ==
    generate_key(<<generate_hash(image), request.mode, request.min_confidence>>,
                 "geolocation")

----------------------------------------------------------------------------
(* Actions *)

\* What process_image leaves behind when it returns resp.
Returns(image, request, env, served_from_cache, invoked, resp) ==
    /\ last' = [op |-> "process_image", image |-> image, request |-> request,
                env |-> env, served_from_cache |-> served_from_cache,
                invoked |-> invoked, stats_before |-> processing_stats,
                previous |-> IF <<image.content, request>> \in DOMAIN earlier
                             THEN Some(earlier[<<image.content, request>>]) ELSE None,
                response |-> resp]
    /\ earlier' = IF resp.success
                  THEN Put(earlier, <<image.content, request>>, resp)
                  ELSE earlier

\* The except branch, lines 134-150
Fails(image, request, env, run, error, invoked, times) ==
    /\ processing_stats' =
           [processing_stats EXCEPT !.total_requests = @ + 1,
                                    !.failed_requests = @ + 1,
                                    !.processing_times = times]
    /\ Returns(image, request, env, FALSE, invoked,
               FailureResponse(run, error, request,
                               processing_stats.total_requests + 1, env.elapsed_ms, now))

\* Lines 112-132, given the response built and what cache_manager.set did
WriteBack(image, request, env, run, response, put) ==
    /\ memory_cache' = put.memory
    /\ redis_store' = put.store
    /\ IF put.raised
       THEN Fails(image, request, env, run, "cache set", run.apis_used,
                  Append(processing_stats.processing_times, env.elapsed_ms))
       ELSE /\ processing_stats' =
                   [processing_stats EXCEPT
                       !.total_requests = @ + 1,
                       !.successful_requests = @ + 1,
                       !.processing_times = Append(@, env.elapsed_ms)]
            /\ Returns(image, request, env, FALSE, run.apis_used, response)

\* a service that also stores the failure response of a run that raised
Serve_CachesFailures(image, request, env, got, run, response) ==
    IF got.raised
    THEN /\ Fails(image, request, env, run, "cache get", <<>>,
                  processing_stats.processing_times)
         /\ memory_cache' = got.memory
         /\ UNCHANGED redis_store
    ELSE IF got.result # None
    THEN /\ processing_stats' = [processing_stats EXCEPT !.total_requests = @ + 1]
         /\ memory_cache' = got.memory
         /\ UNCHANGED redis_store
         /\ Returns(image, request, env, TRUE, <<>>, got.result[1])
    ELSE IF run.raised
    THEN /\ Fails(image, request, env, run, run.error, run.apis_used,
                  processing_stats.processing_times)
         /\ memory_cache' =
                Put(got.memory, CacheKey(image, request),
                    [value |-> FailureResponse(run, run.error, request,
                                               processing_stats.total_requests + 1,
                                               env.elapsed_ms, now),
                     expires_at |-> now + RESULT_TTL])
         /\ UNCHANGED redis_store
    ELSE WriteBack(image, request, env, run, response,
                   CacheSet(redis_client, redis_store, got.memory,
                            CacheKey(image, request), response, Some(RESULT_TTL),
                            env.redis_set_fails, now))

\* Lines 59-132, given what cache_manager.get did and what the run computes
Serve(image, request, env, got, run, response) ==
    IF got.raised
    THEN /\ Fails(image, request, env, run, "cache get", <<>>,
                  processing_stats.processing_times)
         /\ memory_cache' = got.memory
         /\ UNCHANGED redis_store
    ELSE IF got.result # None
    THEN /\ processing_stats' = [processing_stats EXCEPT !.total_requests = @ + 1]
         /\ memory_cache' = got.memory
         /\ UNCHANGED redis_store
         /\ Returns(image, request, env, TRUE, <<>>, got.result[1])
    ELSE IF run.raised
    THEN /\ Fails(image, request, env, run, run.error, run.apis_used,
                  processing_stats.processing_times)
         /\ memory_cache' = got.memory
         /\ UNCHANGED redis_store
    ELSE WriteBack(image, request, env, run, response,
                   CacheSet(redis_client, redis_store, got.memory,
                            CacheKey(image, request), response, Some(RESULT_TTL),
                            env.redis_set_fails, now))

Computed(image, request, env, got, run) ==
    Serve(image, request, env, got, run,
          SuccessResponse(run, request, processing_stats.total_requests + 1,
                          env.elapsed_ms, now))

\* GeolocationService.process_image(image_path, request), lines 43-150.
\* request_id (a uuid4) is the number of the call.
process_image(image, request, env) ==
    /\ processing_stats.total_requests < MaxCalls
    /\ Computed(image, request, env,
                CacheGet(redis_client, redis_store, memory_cache,
                         CacheKey(image, request), env.redis_get_fails, now),
                Aggregate(clients, image, request, env))
    /\ UNCHANGED <<clients, redis_client, now>>

\* POST /upload: endpoints.upload_image.  An uploaded file is
\*   [filename, suffix, content, size, format, has_exif, gps]
\* suffix: Path(filename).suffix; size: len(content).  The stored copy is
\* upload_dir / f"{file_id}_{filename}", written here as <<file_id, filename>>.
max_file_size == 10485760
allowed_extensions == {".jpg", ".jpeg", ".png", ".webp", ".tiff"}

\* str.lower() on the suffixes of the model
lower(suffix) ==
    CASE suffix = ".JPG" -> ".jpg"
      [] suffix = ".Png" -> ".png"
      [] suffix = ".TXT" -> ".txt"
      [] OTHER -> suffix

\* GeolocationRequest(...) validates min_confidence (ge=0, le=1) and
\* max_results (ge=1, le=20) and raises ValidationError otherwise.
GeolocationRequestValid(params) ==
    /\ params.min_confidence >= 0 /\ params.min_confidence <= 1000
    /\ params.max_results >= 1 /\ params.max_results <= 20

\* The file as process_image finds it under file_path
StoredImage(file, file_path) ==
    [filename |-> file_path, content |-> file.content, exists |-> TRUE,
     size_bytes |-> file.size, format |-> file.format, has_exif |-> file.has_exif,
     gps |-> file.gps, in_cwd |-> FALSE]

\* raise HTTPException(status_code, detail) without a call of process_image
Refuses(status_code, detail, file, params) ==
    /\ last' = [op |-> "upload", status_code |-> status_code, detail |-> detail,
                file |-> file, params |-> params, stats_before |-> processing_stats,
                memory_before |-> memory_cache, store_before |-> redis_store,
                dir_before |-> upload_dir]
    /\ UNCHANGED <<clients, redis_client, redis_store, memory_cache, processing_stats,
                   now, earlier>>

upload_image(file, params, file_id, env) ==
    LET file_path == <<file_id, file.filename>>
        written == upload_dir \cup {file_path}
    IN  IF file.filename = ""
        THEN Refuses(400, "No file provided", file, params) /\ UNCHANGED upload_dir
        ELSE IF lower(file.suffix) \notin allowed_extensions
        THEN Refuses(400, "File extension not allowed", file, params)
             /\ UNCHANGED upload_dir
        ELSE IF file.size > max_file_size
        THEN Refuses(400, "File too large", file, params) /\ UNCHANGED upload_dir
        ELSE /\ file_path \notin upload_dir
             /\ IF ~GeolocationRequestValid(params)
                THEN Refuses(500, "Processing error", file, params)
                ELSE process_image(StoredImage(file, file_path), params, env)
             \* finally: if file_path.exists(): file_path.unlink()
             /\ upload_dir' = written \ {file_path}

\* DELETE /cache: endpoints.clear_cache, which calls CacheManager.clear
clear_cache(fails) ==
    LET cleared == CacheClear(redis_client, redis_store, memory_cache, fails)
    IN  /\ memory_cache' = cleared.memory
        /\ redis_store' = cleared.store
        /\ earlier' = EmptyDict
        /\ last' = [op |-> "clear", fails |-> fails, result |-> cleared.result,
                    raised |-> cleared.raised, memory_before |-> memory_cache]
        /\ UNCHANGED <<clients, redis_client, processing_stats, now, upload_dir, tasks>>

\* CacheManager.get(key), called directly
cache_get(key, fails) ==
    LET got == CacheGet(redis_client, redis_store, memory_cache, key, fails, now)
    IN  /\ memory_cache' = got.memory
        /\ last' = [op |-> "get", key |-> key, fails |-> fails, result |-> got.result,
                    raised |-> got.raised, memory_before |-> memory_cache]
        /\ UNCHANGED <<clients, redis_client, redis_store, processing_stats, now,
                       upload_dir, tasks, earlier>>

\* CacheManager.set(key, value, ttl), called directly
cache_set(key, value, ttl, fails) ==
    LET put == CacheSet(redis_client, redis_store, memory_cache, key, value, ttl,
                        fails, now)
    IN  /\ memory_cache' = put.memory
        /\ redis_store' = put.store
        /\ last' = [op |-> "set", key |-> key, value |-> value, ttl |-> ttl,
                    fails |-> fails, result |-> put.result, raised |-> put.raised,
                    memory_before |-> memory_cache]
        /\ UNCHANGED <<clients, redis_client, processing_stats, now, upload_dir, tasks, earlier>>

\* CacheManager.delete(key), called directly
cache_delete(key, fails) ==
    LET deleted == CacheDelete(redis_client, redis_store, memory_cache, key, fails)
    IN  /\ memory_cache' = deleted.memory
        /\ redis_store' = deleted.store
        /\ earlier' = [p \in {q \in DOMAIN earlier :
                                 generate_key(<<q[1], q[2].mode, q[2].min_confidence>>,
                                              "geolocation") # key}
                         |-> earlier[p]]
        /\ last' = [op |-> "delete", key |-> key, fails |-> fails,
                    result |-> deleted.result, raised |-> deleted.raised]
        /\ UNCHANGED <<clients, redis_client, processing_stats, now, upload_dir, tasks>>

\* Time passes.
Tick ==
    /\ now < MaxTime
    /\ now' = now + TickStep
    /\ last' = [op |-> "tick"]
    /\ UNCHANGED <<clients, redis_client, redis_store, memory_cache, processing_stats,
                   upload_dir, tasks, earlier>>

\* The aggregation of one request as a function of its inputs (lines 66-110).
aggregate ==
    /\ last.op = "request"
    /\ last' = [op |-> "aggregate", image |-> last.image, request |-> last.request,
                env |-> last.env,
                run |-> Aggregate(clients, last.image, last.request, last.env)]
    /\ UNCHANGED <<clients, redis_client, redis_store, memory_cache, processing_stats,
                   now, upload_dir, tasks, earlier>>

\* GeolocationService._rank_hypotheses as a function of the list it is given
rank ==
    /\ last.op = "candidates"
    /\ last' = [op |-> "rank", hypotheses |-> last.hypotheses,
                ranked |-> _rank_hypotheses(last.hypotheses)]
    /\ UNCHANGED <<clients, redis_client, redis_store, memory_cache, processing_stats,
                   now, upload_dir, tasks, earlier>>

\* GeocodingService._deduplicate_hypotheses as a function of the list it is given
deduplicate ==
    /\ last.op = "duplicates"
    /\ last' = [op |-> "deduplicate", hypotheses |-> last.hypotheses,
                unique_hypotheses |-> _deduplicate_hypotheses(last.hypotheses)]
    /\ UNCHANGED <<clients, redis_client, redis_store, memory_cache, processing_stats,
                   now, upload_dir, tasks, earlier>>

\* process_image as a coroutine.  Control leaves it only at an await: the
\* cache lookup (line 59), the provider calls (lines 80-108) and the cache
\* write (line 124).  A task is
\*   [pc, image, request, env, seen, response, outcome, started_with]
\* pc: the await it is suspended at, or "done"; seen: the counters as they
\* were when it last gave up control; outcome: "hit", "success" or "failed";
\* started_with: the tasks in flight when it was called.

\* a counter update that writes back the value read before the last await
Incremented_StaleRead(stats, counter, seen) ==
    [stats EXCEPT ![counter] = seen[counter] + 1]

\* self.processing_stats[counter] += 1: read, add and store with no await
\* in between, so the value read is the present one
Incremented(stats, counter, seen) ==
    [stats EXCEPT ![counter] = stats[counter] + 1]

InFlight == {id \in DOMAIN tasks : tasks[id].pc # "done"}

Suspended(id, pc, stats) ==
    tasks' = [tasks EXCEPT ![id].pc = pc, ![id].seen = stats]

Finished(id, outcome, response, stats) ==
    tasks' = [tasks EXCEPT ![id].pc = "done", ![id].seen = stats,
                           ![id].outcome = outcome, ![id].response = response]

\* Lines 43-59: the call up to the await of cache_manager.get
call(id, image, request, env) ==
    /\ id = Cardinality(DOMAIN tasks) + 1
    /\ id <= MaxTasks
    /\ processing_stats' = Incremented(processing_stats, "total_requests", processing_stats)
    /\ tasks' = Put(tasks, id, [pc |-> "get", image |-> image, request |-> request,
                                env |-> env, seen |-> processing_stats',
                                response |-> None, outcome |-> "",
                                started_with |-> InFlight])
    /\ last' = [op |-> "call", task |-> id]
    /\ UNCHANGED <<clients, redis_client, redis_store, memory_cache, now, upload_dir,
                   earlier>>

\* Lines 59-80: from the answer of the cache to the first provider await
resume_get(id) ==
    /\ id \in DOMAIN tasks /\ tasks[id].pc = "get"
    /\ LET task == tasks[id]
           got == CacheGet(redis_client, redis_store, memory_cache,
                           CacheKey(task.image, task.request),
                           task.env.redis_get_fails, now)
       IN  /\ memory_cache' = got.memory
           /\ IF got.result # None
              THEN /\ UNCHANGED processing_stats
                   /\ Finished(id, "hit", got.result, processing_stats)
              ELSE IF ~validate_image(task.image).is_valid
              THEN /\ processing_stats' =
                          Incremented(processing_stats, "failed_requests", task.seen)
                   /\ Finished(id, "failed", None, processing_stats')
              ELSE /\ UNCHANGED processing_stats
                   /\ Suspended(id, "providers", processing_stats)
    /\ last' = [op |-> "resume_get", task |-> id]
    /\ UNCHANGED <<clients, redis_client, redis_store, now, upload_dir, earlier>>

\* Lines 80-124: from the providers' answers to the await of cache_manager.set
resume_providers(id) ==
    /\ id \in DOMAIN tasks /\ tasks[id].pc = "providers"
    /\ LET task == tasks[id]
           run == Aggregate(clients, task.image, task.request, task.env)
       IN  IF run.raised
           THEN /\ processing_stats' =
                       Incremented(processing_stats, "failed_requests", task.seen)
                /\ Finished(id, "failed", None, processing_stats')
           ELSE /\ processing_stats' =
                       [processing_stats EXCEPT
                           !.processing_times = Append(@, task.env.elapsed_ms)]
                /\ tasks' = [tasks EXCEPT
                               ![id].pc = "set", ![id].seen = processing_stats',
                               ![id].response =
                                   Some(SuccessResponse(run, task.request, id,
                                                        task.env.elapsed_ms, now))]
    /\ last' = [op |-> "resume_providers", task |-> id]
    /\ UNCHANGED <<clients, redis_client, redis_store, memory_cache, now, upload_dir,
                   earlier>>

\* Lines 124-132: from the answer of the cache write to the return
resume_set(id) ==
    /\ id \in DOMAIN tasks /\ tasks[id].pc = "set"
    /\ LET task == tasks[id]
           put == CacheSet(redis_client, redis_store, memory_cache,
                           CacheKey(task.image, task.request), task.response[1],
                           Some(RESULT_TTL), task.env.redis_set_fails, now)
       IN  /\ memory_cache' = put.memory
           /\ redis_store' = put.store
           /\ processing_stats' =
                  Incremented(processing_stats, "successful_requests", task.seen)
           /\ Finished(id, "success", task.response, processing_stats')
    /\ last' = [op |-> "resume_set", task |-> id]
    /\ UNCHANGED <<clients, redis_client, now, upload_dir, earlier>>

----------------------------------------------------------------------------
(* Inputs of the model *)

PlaceA == <<0, 0>>
PlaceA2 == <<4, 4>>
PlaceA3 == <<6, 0>>
PlaceB == <<0, 30000>>
PlaceC == <<0, 100000>>
OutOfRange == <<9500000, 0>>

Image(filename, content, exists, size_bytes, format, has_exif, gps, in_cwd) ==
    [filename |-> filename, content |-> content, exists |-> exists,
     size_bytes |-> size_bytes, format |-> format, has_exif |-> has_exif,
     gps |-> gps, in_cwd |-> in_cwd]

ImgLocal == Image("local.jpg", "c1", TRUE, 2000, "JPEG", TRUE, Some(PlaceA), TRUE)
ImgUpload == Image("id1_photo.jpg", "c2", TRUE, 1000, "JPEG", FALSE, None, FALSE)
ImgUploadCopy == Image("id2_copy.jpg", "c2", TRUE, 1000, "JPEG", FALSE, None, FALSE)
ImgUploadGps == Image("id3_gps.jpg", "c1", TRUE, 2000, "JPEG", TRUE, Some(PlaceA), FALSE)
ImgMissing == Image("missing.jpg", "", FALSE, 0, "", FALSE, None, FALSE)
ImgCorrupt == Image("id4_bad.jpg", "c3", TRUE, 1000, "", FALSE, None, FALSE)
ImgGif == Image("id5_anim.jpg", "c4", TRUE, 1000, "GIF", FALSE, None, FALSE)
ImgLarge == Image("id6_big.jpg", "c5", TRUE, 10485761, "JPEG", FALSE, None, FALSE)

VisionOk(annotations) ==
    [raises |-> FALSE, error_message |-> "", annotations |-> annotations]
VisionRaises == [raises |-> TRUE, error_message |-> "", annotations |-> <<>>]
VisionError == [raises |-> FALSE, error_message |-> "quota", annotations |-> <<>>]

Landmark(score, place) ==
    [score |-> score, description |-> "Tower", locations |-> <<place>>]

Answer(status_code, results) ==
    [raises |-> FALSE, status_code |-> status_code, results |-> results]
AnswerRaises == [raises |-> TRUE, status_code |-> 0, results |-> <<>>]

GeoResult(place, confidence, address) ==
    [lat |-> place[1], lon |-> place[2], confidence |-> confidence, address |-> address]

Reverse(raises, found, address) ==
    [raises |-> raises, found |-> found, address |-> address]

Text(candidates) == [length |-> 5, candidates |-> candidates]

\* the four geocoders' answers to the one candidate of the model's texts
Geo(google, locationiq, opencage, nominatim) ==
    [c \in {"Paris"} |->
        [google |-> google, locationiq |-> locationiq, opencage |-> opencage,
         nominatim |-> nominatim]]

Env(landmark, text, geo, reverse, redis_get_fails, redis_set_fails) ==
    [landmark |-> landmark, text |-> text, objects |-> VisionOk(<<>>), geo |-> geo,
     reverse |-> reverse, elapsed_ms |-> 5,
     redis_get_fails |-> redis_get_fails, redis_set_fails |-> redis_set_fails]

Request(mode, min_confidence, max_results, include_metadata, include_address) ==
    [mode |-> mode, min_confidence |-> min_confidence, max_results |-> max_results,
     include_metadata |-> include_metadata, include_address |-> include_address]

FreeTier == [vision |-> TRUE, google_maps |-> FALSE, locationiq |-> TRUE,
             opencage |-> FALSE, nominatim |-> TRUE]
AllProviders == [vision |-> TRUE, google_maps |-> TRUE, locationiq |-> TRUE,
                 opencage |-> TRUE, nominatim |-> TRUE]
NoVision == [vision |-> FALSE, google_maps |-> FALSE, locationiq |-> FALSE,
             opencage |-> FALSE, nominatim |-> TRUE]

ReverseFound == [google |-> Reverse(FALSE, TRUE, "1 Main St"),
                 nominatim |-> Reverse(FALSE, TRUE, "Main Street")]
ReverseFails == [google |-> Reverse(TRUE, FALSE, ""),
                 nominatim |-> Reverse(TRUE, FALSE, "")]

NoGeo == Geo(Answer(200, <<>>), Answer(200, <<>>), Answer(200, <<>>), Answer(200, <<>>))

\* Inputs of the service specification
Images == {ImgUpload, ImgUploadCopy, ImgMissing, ImgCorrupt, ImgGif, ImgLarge}

Requests == {Request("fast", 600, 2, TRUE, FALSE),
             Request("fast", 600, 1, TRUE, FALSE),
             Request("fast", 600, 2, FALSE, FALSE),
             Request("standard", 950, 2, TRUE, TRUE)}

Worlds ==
    {<<VisionOk(<<>>), VisionOk(<<>>), NoGeo>>,
     <<VisionOk(<<Landmark(900, PlaceA), Landmark(620, PlaceA2)>>), VisionOk(<<>>), NoGeo>>,
     <<VisionOk(<<>>), VisionOk(<<Text(<<"Paris">>)>>),
       Geo(Answer(200, <<>>), Answer(503, <<>>), Answer(200, <<>>), Answer(200, <<>>))>>}

RedisFailures == IF redis_client THEN {<<FALSE, FALSE>>, <<TRUE, TRUE>>, <<FALSE, TRUE>>}
                 ELSE {<<FALSE, FALSE>>}

Envs == {Env(w[1], w[2], w[3], ReverseFound, f[1], f[2]) : w \in Worlds, f \in RedisFailures}

----------------------------------------------------------------------------
(* The service: process_image, the cache endpoint and the cache methods *)

Fresh ==
    /\ redis_store = EmptyDict
    /\ memory_cache = EmptyDict
    /\ processing_stats = [total_requests |-> 0, successful_requests |-> 0,
                           failed_requests |-> 0, processing_times |-> <<>>]
    /\ now = 0
    /\ upload_dir = {}
    /\ tasks = EmptyDict
    /\ earlier = EmptyDict

Init ==
    /\ Fresh
    /\ clients = FreeTier
    /\ redis_client \in BOOLEAN
    /\ last = [op |-> "init"]

StoredKeys == (DOMAIN memory_cache) \cup (DOMAIN redis_store)

Next ==
    \/ \E image \in Images, request \in Requests, env \in Envs :
           process_image(image, request, env) /\ UNCHANGED <<upload_dir, tasks>>
    \/ \E fails \in {f[1] : f \in RedisFailures} : clear_cache(fails)
    \/ \E key \in StoredKeys, fails \in {f[1] : f \in RedisFailures} : cache_get(key, fails)
    \/ \E key \in StoredKeys, fails \in {f[1] : f \in RedisFailures} : cache_delete(key, fails)
    \/ Tick

Spec == Init /\ [][Next]_vars


\* Inputs of the aggregation specification
PipelineImages == {ImgLocal, ImgUpload, ImgUploadGps}

PipelineRequests ==
    {Request(mode, min_confidence, max_results, TRUE, include_address) :
        mode \in ProcessingMode, min_confidence \in {600, 630}, max_results \in {1, 3},
        include_address \in BOOLEAN}

LandmarkAnnotations ==
    {Landmark(700, PlaceA), Landmark(700, PlaceC), Landmark(500, PlaceA),
     Landmark(900, PlaceA2)}

RECURSIVE SeqsUpTo(_, _)
SeqsUpTo(S, n) ==
    IF n = 0 THEN {<<>>}
    ELSE SeqsUpTo(S, n - 1)
         \cup {Append(q, x) : q \in {r \in SeqsUpTo(S, n - 1) : Len(r) = n - 1}, x \in S}

\* a landmark with two locations, the second one outside the latitude range
LandmarkTwoLocations ==
    [score |-> 900, description |-> "Tower", locations |-> <<PlaceA, OutOfRange>>]

LandmarkResponses ==
    {VisionRaises, VisionError, VisionOk(<<LandmarkTwoLocations>>)}
    \cup {VisionOk(annotations) : annotations \in SeqsUpTo(LandmarkAnnotations, MaxLandmarks)}

TextWorlds ==
    {<<VisionOk(<<>>), NoGeo>>, <<VisionRaises, NoGeo>>}
    \cup {<<VisionOk(<<Text(<<"Paris">>)>>), Geo(google, locationiq, opencage, Answer(200, <<GeoResult(PlaceC, 0, "Paris, Texas")>>))>> :
            google \in {Answer(200, <<GeoResult(PlaceB, 0, "Paris, France")>>)},
            locationiq \in {AnswerRaises, Answer(503, <<>>),
                            Answer(200, <<GeoResult(PlaceA2, 900, "Rue A")>>),
                            Answer(200, <<GeoResult(PlaceA3, 500, "Rue B"),
                                          GeoResult(PlaceA, 900, "Rue C")>>)},
            opencage \in {Answer(200, <<>>),
                          Answer(200, <<GeoResult(PlaceA, 9, "Place A")>>)}}
    \* answers in which one result is out of range: a latitude of 95 degrees
    \* from LocationIQ, a confidence of 11 on OpenCage's scale of 0..10
    \cup {<<VisionOk(<<Text(<<"Paris">>)>>),
            Geo(Answer(200, <<GeoResult(PlaceB, 0, "Paris, France")>>),
                Answer(200, <<GeoResult(OutOfRange, 900, "Rue D"),
                              GeoResult(PlaceA, 900, "Rue C")>>),
                Answer(200, <<GeoResult(PlaceA2, 11, "Place B"),
                              GeoResult(PlaceC, 9, "Place C")>>),
                Answer(200, <<GeoResult(PlaceC, 0, "Paris, Texas")>>))>>}

\* what object localization answers
ObjectResponses ==
    {VisionOk(<<>>), VisionRaises,
     VisionOk(<<[name |-> "Eiffel Tower", location_like |-> TRUE],
                [name |-> "Person", location_like |-> FALSE]>>)}

\* reverse lookups that raise, find nothing, or find a place without address
ReverseNothing == [google |-> Reverse(FALSE, FALSE, ""),
                   nominatim |-> Reverse(FALSE, FALSE, "")]
ReverseNoAddress == [google |-> Reverse(FALSE, TRUE, ""),
                     nominatim |-> Reverse(TRUE, FALSE, "")]

PipelineEnvs ==
    {Env(landmark, w[1], w[2], ReverseFound, FALSE, FALSE) :
        landmark \in LandmarkResponses, w \in TextWorlds}
    \cup {Env(landmark, w[1], w[2], reverse, FALSE, FALSE) :
            landmark \in {VisionOk(<<>>),
                          VisionOk(<<Landmark(900, PlaceA2), Landmark(700, PlaceC)>>)},
            w \in TextWorlds,
            reverse \in {ReverseFails, ReverseNothing, ReverseNoAddress}}
    \cup {[Env(VisionOk(<<Landmark(900, PlaceA2), Landmark(700, PlaceC)>>), w[1], w[2],
               ReverseFound, FALSE, FALSE) EXCEPT !.objects = objects] :
            w \in TextWorlds, objects \in ObjectResponses \ {VisionOk(<<>>)}}

CacheKeys == {generate_key("a", "geo"), generate_key("b", "geo")}
CacheValues == {"v1", "v2"}
CacheTtls == {None, Some(1800), Some(0)}

----------------------------------------------------------------------------
(* Specifications *)

\* The aggregation alone, as a function of its inputs
InitPipeline ==
    /\ Fresh
    /\ redis_client = FALSE
    /\ clients \in {FreeTier, AllProviders, NoVision}
    /\ last \in {[op |-> "request", image |-> image, request |-> request, env |-> env] :
                    image \in PipelineImages, request \in PipelineRequests,
                    env \in PipelineEnvs}

PipelineSpec == InitPipeline /\ [][aggregate]_vars

\* The CacheManager alone, driven through its public methods
NextCache ==
    \/ \E key \in CacheKeys, value \in CacheValues, ttl \in CacheTtls, fails \in BOOLEAN :
           cache_set(key, value, ttl, fails /\ redis_client)
    \/ \E key \in CacheKeys, fails \in BOOLEAN : cache_get(key, fails /\ redis_client)
    \/ \E key \in CacheKeys, fails \in BOOLEAN : cache_delete(key, fails /\ redis_client)
    \/ \E fails \in BOOLEAN : clear_cache(fails /\ redis_client)
    \/ Tick

CacheSpec == Init /\ [][NextCache]_vars

\* Inputs of the ranking specification: up to MaxRanked candidates of any
\* source, followed by up to MaxCrowd landmark hypotheses at one place
RankCandidates ==
    {LocationHypothesis(place[1], place[2], confidence, source, "", "") :
        place \in {PlaceA, PlaceC}, confidence \in {0, 500, 1000}, source \in DataSource}

Crowd(n) == [i \in 1..n |-> LocationHypothesis(PlaceA2[1], PlaceA2[2], 900,
                                               LANDMARK_DETECTION, "Tower", "")]

\* The ranking alone, as a function of its input
InitRank ==
    /\ Fresh
    /\ redis_client = FALSE
    /\ clients = FreeTier
    /\ last \in {[op |-> "candidates", hypotheses |-> hypotheses \o Crowd(n)] :
                    hypotheses \in SeqsUpTo(RankCandidates, MaxRanked), n \in 0..MaxCrowd}

RankSpec == InitRank /\ [][rank]_vars

\* The deduplication alone: candidates 4 m, 6 m and 111 km from PlaceA, with
\* two descriptions and two confidences
DedupCandidates ==
    {LocationHypothesis(place[1], place[2], confidence, OCR_GEOCODING, address, address) :
        place \in {PlaceA, PlaceA2, PlaceA3, PlaceC}, confidence \in {500, 900},
        address \in {"Rue A", "Rue B"}}

InitDedup ==
    /\ Fresh
    /\ redis_client = FALSE
    /\ clients = FreeTier
    /\ last \in {[op |-> "duplicates", hypotheses |-> hypotheses] :
                    hypotheses \in SeqsUpTo(DedupCandidates, MaxDuplicates)}

DedupSpec == InitDedup /\ [][deduplicate]_vars

\* Concurrent calls of process_image on one event loop
TaskImages == {ImgUpload, ImgCorrupt}

TaskRequests == {Request("fast", 600, 2, TRUE, FALSE),
                 Request("standard", 950, 2, TRUE, TRUE)}

TaskEnvs ==
    {Env(w[1], w[2], w[3], ReverseFound, FALSE, FALSE) :
        w \in {<<VisionOk(<<Landmark(900, PlaceA), Landmark(620, PlaceA2)>>),
                 VisionOk(<<>>), NoGeo>>,
               <<VisionOk(<<>>), VisionOk(<<Text(<<"Paris">>)>>),
                 Geo(Answer(200, <<>>), Answer(503, <<>>), Answer(200, <<>>),
                     Answer(200, <<>>))>>}}

NextTasks ==
    \/ \E id \in 1..MaxTasks, image \in TaskImages, request \in TaskRequests,
          env \in TaskEnvs :
           call(id, image, request, env)
    \/ \E id \in DOMAIN tasks : resume_get(id)
    \/ \E id \in DOMAIN tasks : resume_providers(id)
    \/ \E id \in DOMAIN tasks : resume_set(id)

ConcurrentSpec == Init /\ [][NextTasks]_vars

\* Inputs of the upload specification
UploadFile(filename, suffix, content, size, format, has_exif, gps) ==
    [filename |-> filename, suffix |-> suffix, content |-> content, size |-> size,
     format |-> format, has_exif |-> has_exif, gps |-> gps]

UploadFiles ==
    {UploadFile("photo.jpg", ".jpg", "c2", 1000, "JPEG", FALSE, None),
     UploadFile("SCAN.JPG", ".JPG", "c2", 1000, "JPEG", FALSE, None),
     UploadFile("bad.jpg", ".jpg", "c3", 1000, "", FALSE, None),
     UploadFile("edge.jpg", ".jpg", "c6", 10485760, "JPEG", FALSE, None),
     UploadFile("large.jpg", ".jpg", "c5", 10485761, "JPEG", FALSE, None),
     UploadFile("test.txt", ".txt", "c7", 12, "", FALSE, None),
     UploadFile("", "", "c2", 1000, "JPEG", FALSE, None)}

UploadParams == {Request("standard", 600, 5, TRUE, TRUE),
                 Request("fast", 1500, 2, TRUE, FALSE),
                 Request("standard", 600, 0, TRUE, TRUE)}

FileIds == {"id1", "id2"}

UploadEnvs ==
    {Env(w[1], w[2], w[3], ReverseFound, f[1], f[2]) :
        w \in {<<VisionOk(<<>>), VisionOk(<<>>), NoGeo>>,
               <<VisionOk(<<Landmark(900, PlaceA), Landmark(620, PlaceA2)>>),
                 VisionOk(<<>>), NoGeo>>},
        f \in RedisFailures}

NextUpload ==
    \/ \E file \in UploadFiles, params \in UploadParams, file_id \in FileIds,
          env \in UploadEnvs :
           upload_image(file, params, file_id, env) /\ UNCHANGED tasks
    \/ \E fails \in {f[1] : f \in RedisFailures} : clear_cache(fails)

UploadSpec == Init /\ [][NextUpload]_vars

----------------------------------------------------------------------------
(* Properties *)

ImageProcessed == last.op = "process_image"
ComputedNow == ImageProcessed /\ ~last.served_from_cache

\* The image cannot be read or decoded, or is refused: it does not exist, is
\* corrupt, has an unsupported format or is too large.
Unusable(image) ==
    \/ ~image.exists
    \/ image.format = ""
    \/ image.format \notin {"JPEG", "PNG", "WEBP", "TIFF"}
    \/ image.size_bytes > 10 * 1024 * 1024

Priority(source) ==
    CASE source = EXIF_GPS -> 1
      [] source = LANDMARK_DETECTION -> 2
      [] source = REVERSE_GEOCODING -> 3
      [] source = OCR_GEOCODING -> 4

\* C1: every result returned with success=true holds at most
\* request.max_results hypotheses, the request being that of the call itself,
\* whether the result was computed or served from the cache.
C1_AtMostMaxResults ==
    ImageProcessed /\ last.response.success
        => Len(last.response.hypotheses) <= last.request.max_results

\* C2: the confidence filter acts on the final confidence: every hypothesis
\* of a computed result has confidence >= request.min_confidence, and every
\* candidate whose final confidence (after weighting and boost) reaches
\* min_confidence is retained by the filter.
C2_FilterOnFinalConfidence ==
    ComputedNow /\ last.response.success =>
        LET collected == Collect(clients, last.image, last.request, last.env)
            final == Boosted(Weighted(collected.all_hypotheses))
            kept == _filter_hypotheses(final, last.request.min_confidence)
        IN  /\ \A i \in 1..Len(last.response.hypotheses) :
                   last.response.hypotheses[i].confidence >= last.request.min_confidence
            /\ Len(last.response.hypotheses)
                   = Min(Len(kept), last.request.max_results)

\* C3: no result holds two hypotheses whose latitude and longitude agree
\* after rounding to 4 decimal places.
C3_NoDuplicateCoordinates ==
    ImageProcessed =>
        \A i, j \in 1..Len(last.response.hypotheses) :
            i < j => <<Round4(last.response.hypotheses[i].latitude),
                       Round4(last.response.hypotheses[i].longitude)>>
                     # <<Round4(last.response.hypotheses[j].latitude),
                         Round4(last.response.hypotheses[j].longitude)>>

\* The hypotheses of the result just computed, if one was.
ComputedHypotheses ==
    IF last.op = "aggregate" /\ ~last.run.raised THEN Some(last.run.hypotheses)
    ELSE IF last.op = "process_image" /\ ~last.served_from_cache /\ last.response.success
    THEN Some(last.response.hypotheses)
    ELSE None

\* C4: the hypotheses of a computed result are in non-increasing order of
\* final confidence, and hypotheses of equal confidence are in the order
\* EXIF_GPS, LANDMARK_DETECTION, REVERSE_GEOCODING, OCR_GEOCODING.
C4_RankedByConfidenceThenSource ==
    ComputedHypotheses # None =>
        LET hs == ComputedHypotheses[1]
        IN  \A i, j \in 1..Len(hs) :
                i < j => /\ hs[i].confidence >= hs[j].confidence
                         /\ hs[i].confidence = hs[j].confidence
                                => Priority(hs[i].source) <= Priority(hs[j].source)

\* a computed result in which two hypotheses of different sources tie
C4_TieBetweenSources ==
    /\ ComputedHypotheses # None
    /\ \E i, j \in 1..Len(ComputedHypotheses[1]) :
           /\ i < j
           /\ ComputedHypotheses[1][i].confidence = ComputedHypotheses[1][j].confidence
           /\ ComputedHypotheses[1][i].source # ComputedHypotheses[1][j].source

\* C5: after a successful call, a call with the same image content and the
\* same request, made before the cached entry's TTL runs out and with no
\* clear in between, is served from the cache, invokes no provider and
\* returns the earlier call's result.
C5_RepeatIsServedFromCache ==
    ImageProcessed /\ last.previous # None
             /\ now < last.previous[1].processed_at + RESULT_TTL
        => /\ last.served_from_cache
           /\ last.invoked = <<>>
           /\ last.response = last.previous[1]

\* C6: for a valid image no failure of a signal provider makes process_image
\* return success=false.
C6_ProviderFailureIsIsolated ==
    ImageProcessed /\ ~Unusable(last.image) => last.response.success

\* C7: for an image that does not exist or fails validation, process_image
\* returns success=false with an error message and no hypotheses, whatever
\* the cache holds.
C7_UnusableImageFails ==
    ImageProcessed /\ Unusable(last.image)
        => /\ ~last.response.success
           /\ last.response.error_message # None
           /\ last.response.error_message[1] # ""
           /\ last.response.hypotheses = <<>>

\* an unusable image was submitted while the cache held results
C7_UnusableImageWithFilledCache ==
    /\ ImageProcessed /\ Unusable(last.image)
    /\ DOMAIN memory_cache # {}
    /\ ~last.response.success

C9_DegradesToFastTier ==
    /\ last.op = "set" /\ redis_client /\ last.fails
           => /\ last.key \in DOMAIN memory_cache
              /\ memory_cache[last.key].value = last.value
    /\ last.op = "get" /\ redis_client /\ last.fails
           /\ last.key \in DOMAIN last.memory_before
           /\ now < last.memory_before[last.key].expires_at
           => last.result = Some(last.memory_before[last.key].value)

\* The cached entry is what the providers' present outputs give for a request
\* of the same cache key.
FromSameOutputs(cached) ==
    \E request \in Requests :
        /\ CacheKey(last.image, request) = CacheKey(last.image, last.request)
        /\ cached.success
        /\ ~Aggregate(clients, last.image, request, last.env).raised
        /\ cached.hypotheses
               = Aggregate(clients, last.image, request, last.env).hypotheses

\* C10: a failure of the cache backend never surfaces: get, set, delete and
\* clear raise nothing and a failed get reports a miss; and for the same image
\* and provider outputs process_image returns the same success flag and the
\* same hypotheses when the backend fails during the lookup and the write-back
\* as it returns when the backend works.
C10_CacheFailureNeverSurfaces ==
    /\ last.op \in {"get", "set", "delete", "clear"} => ~last.raised
    /\ last.op = "get" /\ redis_client /\ last.fails => last.result = None
    /\ ImageProcessed /\ redis_client
           /\ last.env.redis_get_fails /\ last.env.redis_set_fails
           => LET works == CacheGet(redis_client, redis_store, memory_cache,
                                    CacheKey(last.image, last.request), FALSE, now)
                  run == Aggregate(clients, last.image, last.request, last.env)
              IN  IF works.result = None
                  THEN /\ last.response.success = ~run.raised
                       /\ last.response.hypotheses = run.hypotheses
                  ELSE FromSameOutputs(works.result[1])
                           => /\ last.response.success = works.result[1].success
                              /\ last.response.hypotheses = works.result[1].hypotheses

\* C11: an entry written by set(key, value, ttl) expires ttl seconds after the
\* write, ttl being the override whenever one is given and one hour otherwise;
\* the fast tier serves the entry only strictly before its expiry, and the
\* first get at or after the expiry returns no value and removes the entry
\* from the fast tier.
C11_TtlBoundsFastTier ==
    /\ last.op = "set" /\ last.result
           => /\ last.key \in DOMAIN memory_cache
              /\ memory_cache[last.key].expires_at
                     = now + (IF last.ttl = None THEN 3600 ELSE last.ttl[1])
    /\ last.op = "get" /\ last.key \in DOMAIN last.memory_before
                       /\ (~redis_client \/ last.key \notin DOMAIN redis_store)
           => IF now < last.memory_before[last.key].expires_at
              THEN last.result = Some(last.memory_before[last.key].value)
              ELSE /\ last.result = None
                   /\ last.key \notin DOMAIN memory_cache

\* what one step of the cache may do around clear()
C12_Step ==
    /\ last'.op = "clear" /\ last'.result
           => /\ memory_cache' = EmptyDict
              /\ redis_store' = EmptyDict
    /\ last'.op = "clear" /\ ~last'.result => memory_cache' = memory_cache
    /\ \A key \in ((DOMAIN memory_cache') \ DOMAIN memory_cache)
                      \cup ((DOMAIN redis_store') \ DOMAIN redis_store) :
           last'.op = "set" /\ last'.key = key /\ last'.result
    /\ last'.op = "get" /\ last'.key \notin (DOMAIN memory_cache) \cup (DOMAIN redis_store)
           => last'.result = None

\* C12: a clear() that returns True leaves both tiers empty, a key enters a
\* tier only through a set that succeeds, and get returns None for a key held
\* in no tier, so that after clear() every get(k) returns None until a later
\* set(k, ...) succeeds; a clear() that returns False has left the fast tier
\* unchanged.
C12_ClearEmptiesBothTiers == [][C12_Step]_vars

\* clear() returned True on a cache that held entries in both tiers
C12_ClearedFilledCache ==
    /\ last.op = "clear" /\ last.result /\ redis_client
    /\ last.memory_before # EmptyDict
    /\ memory_cache = EmptyDict

\* C13: after ranking the confidence of every hypothesis lies in [0,1],
\* whatever the raw confidences in [0,1], the sources and the number of nearby
\* hypotheses, and the boost added to one hypothesis never exceeds 0.1.
C13_ConfidenceStaysInRange ==
    last.op = "rank" =>
        /\ Len(last.ranked) = Len(last.hypotheses)
        /\ \A i \in 1..Len(last.ranked) :
               0 <= last.ranked[i].confidence /\ last.ranked[i].confidence <= 1000
        /\ \A i \in 1..Len(last.hypotheses) :
               LET before == Weighted(last.hypotheses)[i].confidence
                   after == Boosted(Weighted(last.hypotheses))[i].confidence
               IN  before <= after /\ after - before <= 100

\* a hypothesis near the top of the range with more than five others nearby
C13_CrowdedNearOne ==
    /\ last.op = "rank"
    /\ \E i \in 1..Len(last.hypotheses) :
           /\ nearby_count(last.hypotheses, i) > 5
           /\ Weighted(last.hypotheses)[i].confidence > 900
           /\ Boosted(Weighted(last.hypotheses))[i].confidence = 1000

\* the weight the ranking is to give each source, in tenths
ClaimedWeight(source) ==
    CASE source = EXIF_GPS -> 10
      [] source = LANDMARK_DETECTION -> 9
      [] source = REVERSE_GEOCODING -> 8
      [] source = OCR_GEOCODING -> 7

\* C14: before any boost the confidence of each candidate is
\* min(1, raw confidence x source weight), with weights EXIF_GPS 1.0,
\* LANDMARK_DETECTION 0.9, REVERSE_GEOCODING 0.8, OCR_GEOCODING 0.7, applied
\* once: a lone candidate ends at exactly that confidence.
C14_WeightedOncePerSource ==
    last.op = "rank" =>
        /\ \A i \in 1..Len(last.hypotheses) :
               Weighted(last.hypotheses)[i].confidence * 10
                   = Min(10000, last.hypotheses[i].confidence
                                * ClaimedWeight(last.hypotheses[i].source))
        /\ Len(last.hypotheses) = 1
               => last.ranked[1].confidence * 10
                      = Min(10000, last.hypotheses[1].confidence
                                   * ClaimedWeight(last.hypotheses[1].source))

\* a lone OCR candidate of raw confidence 1.0 ends at 0.7
C14_LoneOcrCandidate ==
    /\ last.op = "rank"
    /\ Len(last.hypotheses) = 1
    /\ last.hypotheses[1].source = OCR_GEOCODING
    /\ last.hypotheses[1].confidence = 1000
    /\ last.ranked[1].confidence = 700

\* C15: for a valid image whose metadata carries in-range GPS coordinates and
\* for which no other provider yields a candidate, the run returns exactly one
\* hypothesis, with those coordinates, confidence 1.0 and source EXIF_GPS, and
\* best_guess is that hypothesis.
C15_ExifOnlyImage ==
    LET collected == Collect(clients, last.image, last.request, last.env)
    IN  (/\ last.op = "aggregate"
         /\ ~Unusable(last.image)
         /\ last.image.has_exif
         /\ last.image.gps # None
         /\ validate_coordinates(last.image.gps[1][1], last.image.gps[1][2])
         /\ ~collected.raised
         /\ \A i \in 1..Len(collected.all_hypotheses) :
                collected.all_hypotheses[i].source = EXIF_GPS)
        => /\ Len(last.run.hypotheses) = 1
           /\ last.run.hypotheses[1].latitude = last.image.gps[1][1]
           /\ last.run.hypotheses[1].longitude = last.image.gps[1][2]
           /\ last.run.hypotheses[1].confidence = 1000
           /\ last.run.hypotheses[1].source = EXIF_GPS
           /\ SuccessResponse(last.run, last.request, 1, last.env.elapsed_ms, now).best_guess
                  = Some(last.run.hypotheses[1])

\* the provider calls a run has recorded
ApisUsed == {last.run.apis_used[i] : i \in 1..Len(last.run.apis_used)}

\* C16: in mode fast neither text detection nor forward geocoding nor object
\* detection is invoked and the result holds no OCR_GEOCODING hypothesis; the
\* EXIF and landmark candidates are collected in every mode; with the vision
\* service available, text detection (followed by geocoding of the texts
\* found) runs in the modes standard and comprehensive and object detection in
\* comprehensive alone.
C16_ModesGateProviders ==
    last.op = "aggregate" /\ ~last.run.raised =>
        LET collected == Collect(clients, last.image, last.request, last.env).all_hypotheses
            exif == _extract_exif_coordinates(last.image,
                                              _extract_image_metadata(last.image))
            landmarks == detect_landmarks(clients.vision, last.env.landmark)
            mode == last.request.mode
        IN  /\ mode = "fast" =>
                   /\ ApisUsed \cap {"google_vision_text", "geocoding_services",
                                     "google_vision_objects"} = {}
                   /\ \A i \in 1..Len(last.run.hypotheses) :
                          last.run.hypotheses[i].source # OCR_GEOCODING
            /\ \A i \in 1..Len(exif) : \E j \in 1..Len(collected) : collected[j] = exif[i]
            /\ \A i \in 1..Len(landmarks) :
                   \E j \in 1..Len(collected) : collected[j] = landmarks[i]
            /\ ("google_vision_landmark" \in ApisUsed) = clients.vision
            /\ clients.vision =>
                   /\ ("google_vision_text" \in ApisUsed)
                          = (mode \in {"standard", "comprehensive"})
                   /\ ("geocoding_services" \in ApisUsed)
                          = (/\ mode \in {"standard", "comprehensive"}
                             /\ detect_text(clients.vision, last.env.text) # <<>>)
                   /\ ("google_vision_objects" \in ApisUsed) = (mode = "comprehensive")

\* a fast run on an image that shows a text the geocoders know
C16_FastRunWithText ==
    /\ last.op = "aggregate" /\ ~last.run.raised
    /\ last.request.mode = "fast"
    /\ clients.vision
    /\ detect_text(clients.vision, last.env.text) # <<>>
    /\ detect_landmarks(clients.vision, last.env.landmark) # <<>>
    /\ last.run.hypotheses # <<>>

\* C17: in every result of process_image, computed, served from the cache or
\* failed, best_guess is the first element of hypotheses when there is one and
\* None otherwise, and no hypothesis has a higher confidence than best_guess.
C17_BestGuessIsFirst ==
    ImageProcessed =>
        IF last.response.hypotheses = <<>>
        THEN last.response.best_guess = None
        ELSE /\ last.response.best_guess = Some(last.response.hypotheses[1])
             /\ \A i \in 1..Len(last.response.hypotheses) :
                    last.response.hypotheses[i].confidence
                        <= last.response.best_guess[1].confidence

\* a result of two hypotheses of different confidence, served from the cache
C17_CachedResultOfTwo ==
    /\ ImageProcessed /\ last.served_from_cache
    /\ Len(last.response.hypotheses) = 2
    /\ last.response.hypotheses[1].confidence > last.response.hypotheses[2].confidence

\* the two checks of the claim on an uploaded file
PassesBothChecks(file) ==
    /\ lower(file.suffix) \in allowed_extensions
    /\ file.size <= max_file_size

\* what one POST /upload does with its file
C18_Step ==
    \A file \in UploadFiles, params \in UploadParams, file_id \in FileIds,
       env \in UploadEnvs :
        upload_image(file, params, file_id, env) =>
            IF ~PassesBothChecks(file)
            THEN /\ last'.op = "upload" /\ last'.status_code = 400
                 /\ processing_stats' = processing_stats
                 /\ memory_cache' = memory_cache /\ redis_store' = redis_store
                 /\ upload_dir' = upload_dir
            ELSE /\ last'.op = "process_image"
                 /\ last'.image = StoredImage(file, <<file_id, file.filename>>)
                 /\ processing_stats'.total_requests = processing_stats.total_requests + 1
                 /\ <<file_id, file.filename>> \notin upload_dir'

\* C18: POST /upload answers 400 without calling process_image (counters,
\* cache and upload directory unchanged) when the extension of the file is not
\* allowed or its content exceeds max_file_size; a file that passes both
\* checks is processed exactly once and its stored copy is gone when the
\* handler returns, whatever process_image answered.
C18_UploadChecksGuardProcessing == [][C18_Step]_vars

\* some collected candidate of the given source lies at the coordinate key of
\* <<lat, lon>>
Collected(all_hypotheses, source, lat, lon) ==
    \E k \in 1..Len(all_hypotheses) :
        /\ all_hypotheses[k].source = source
        /\ coord_key(all_hypotheses[k])
               = coord_key(LocationHypothesis(lat, lon, 0, source, "", ""))

\* every in-range result of a geocoder's answer is among the collected
\* candidates; confidence is the result's figure in thousandths
ResultsCollected(all_hypotheses, answer, scale) ==
    ~answer.raises /\ answer.status_code = 200 =>
        \A i \in 1..Len(answer.results) :
            HypothesisFieldsValid(answer.results[i].lat, answer.results[i].lon,
                                  answer.results[i].confidence * scale)
                => Collected(all_hypotheses, OCR_GEOCODING,
                             answer.results[i].lat, answer.results[i].lon)

\* C19: a candidate with out-of-range coordinates or confidence is dropped
\* alone: in a run that raised nothing, every in-range location of a landmark
\* above the threshold and every in-range result of the LocationIQ and
\* OpenCage answers is among the candidates collected for ranking.
C19_InvalidCandidateDiscardedAlone ==
    last.op = "aggregate" =>
        LET collected == Collect(clients, last.image, last.request, last.env)
            landmark == last.env.landmark
            texts == detect_text(clients.vision, last.env.text)
        IN  ~collected.raised =>
              /\ (clients.vision /\ ~landmark.raises /\ landmark.error_message = "") =>
                     \A i \in 1..Len(landmark.annotations) :
                         \A j \in 1..Len(landmark.annotations[i].locations) :
                             LET location == landmark.annotations[i].locations[j]
                                 score == landmark.annotations[i].score
                             IN  (/\ score >= landmark_confidence_threshold
                                  /\ HypothesisFieldsValid(location[1], location[2], score))
                                     => Collected(collected.all_hypotheses,
                                                  LANDMARK_DETECTION,
                                                  location[1], location[2])
              /\ (text_enabled(clients, last.request) /\ texts # <<>>) =>
                     \A c \in {texts[1].candidates[n] : n \in 1..Len(texts[1].candidates)} :
                         /\ clients.locationiq =>
                                ResultsCollected(collected.all_hypotheses,
                                                 last.env.geo[c].locationiq, 1)
                         /\ clients.opencage =>
                                ResultsCollected(collected.all_hypotheses,
                                                 last.env.geo[c].opencage, 100)

\* candidates i and j lie strictly less than 50 km apart
Nearby(hypotheses, i, j) ==
    calculate_distance(<<hypotheses[i].latitude, hypotheses[i].longitude>>,
                       <<hypotheses[j].latitude, hypotheses[j].longitude>>)
        < NEARBY_KM * 1000

\* the confidence the claim gives candidate i of the weighted candidates:
\* its weighted confidence plus min(0.1, 0.02 n), n counted over all of them
ClaimedConfidence(weighted, i) ==
    LET n == Cardinality({j \in 1..Len(weighted) : j # i /\ Nearby(weighted, i, j)})
    IN  IF n = 0 THEN weighted[i].confidence
        ELSE LET claimed == weighted[i].confidence + (IF 20 * n < 100 THEN 20 * n ELSE 100)
             IN  IF claimed < 1000 THEN claimed ELSE 1000

\* C20: every hypothesis a run returns carries its weighted confidence plus
\* min(0.1, 0.02 n), where n counts the other candidates collected in the run
\* that lie strictly less than 50 km away, whether or not the confidence
\* filter kept them; the nearby relation is symmetric and n = 0 adds nothing.
C20_BoostCountsAllCandidates ==
    last.op = "aggregate" /\ ~last.run.raised =>
        LET collected == Collect(clients, last.image, last.request, last.env)
            weighted == Weighted(collected.all_hypotheses)
        IN  /\ \A i, j \in 1..Len(weighted) :
                   Nearby(weighted, i, j) <=> Nearby(weighted, j, i)
            /\ \A r \in 1..Len(last.run.hypotheses) :
                   \E i \in 1..Len(weighted) :
                       /\ weighted[i].latitude = last.run.hypotheses[r].latitude
                       /\ weighted[i].longitude = last.run.hypotheses[r].longitude
                       /\ weighted[i].source = last.run.hypotheses[r].source
                       /\ weighted[i].description = last.run.hypotheses[r].description
                       /\ last.run.hypotheses[r].confidence
                              = ClaimedConfidence(weighted, i)

\* no configured reverse geocoder gives a place with an address
LookupGivesNothing(geocoders, reverse) ==
    /\ geocoders.google_maps =>
           reverse.google.raises \/ ~reverse.google.found \/ reverse.google.address = ""
    /\ (geocoders.google_maps /\ ~reverse.google.raises /\ reverse.google.found)
           \/ (geocoders.nominatim =>
                   \/ reverse.nominatim.raises \/ ~reverse.nominatim.found
                   \/ reverse.nominatim.address = "")

\* C21: address enrichment looks up exactly the truncated hypotheses that have
\* no address, once each and in order; it keeps the length and order of the
\* list and every hypothesis's latitude, longitude, confidence and source,
\* leaves a hypothesis that has an address, or whose lookup fails or gives
\* nothing, entirely unchanged, and never makes the run raise.
C21_EnrichmentOnlyAddsAddresses ==
    last.op = "aggregate" =>
        LET collected == Collect(clients, last.image, last.request, last.env)
            truncated == Truncated(last.request, collected.all_hypotheses)
            final == last.run.hypotheses
            lacking == {i \in 1..Len(truncated) : truncated[i].address = ""}
        IN  /\ last.run.raised = collected.raised
            /\ (~collected.raised /\ last.request.include_address) =>
                 /\ Len(final) = Len(truncated)
                 /\ Len(last.run.reverse_lookups) = Cardinality(lacking)
                 /\ \A i \in lacking :
                        \E k \in 1..Len(last.run.reverse_lookups) :
                            /\ last.run.reverse_lookups[k]
                                   = <<truncated[i].latitude, truncated[i].longitude>>
                            /\ Cardinality({j \in lacking : j < i}) = k - 1
                 /\ \A i \in 1..Len(truncated) :
                        /\ final[i].latitude = truncated[i].latitude
                        /\ final[i].longitude = truncated[i].longitude
                        /\ final[i].confidence = truncated[i].confidence
                        /\ final[i].source = truncated[i].source
                        /\ truncated[i].address # "" => final[i] = truncated[i]
                        /\ LookupGivesNothing(clients, last.env.reverse)
                               => final[i] = truncated[i]
                        /\ final[i] # truncated[i] =>
                               final[i] = [truncated[i] EXCEPT !.address = final[i].address]

\* an enriched run that returns a hypothesis that kept its own address next to
\* one that received the address of the lookup
C21_MixedEnrichment ==
    /\ last.op = "aggregate" /\ ~last.run.raised /\ last.request.include_address
    /\ Len(last.run.reverse_lookups) = 1
    /\ LET truncated == Truncated(last.request,
                                  Collect(clients, last.image, last.request,
                                          last.env).all_hypotheses)
       IN  /\ Len(truncated) >= 2
           /\ \E i, j \in 1..Len(truncated) :
                  /\ truncated[i].address # "" /\ last.run.hypotheses[i] = truncated[i]
                  /\ truncated[j].address = "" /\ last.run.hypotheses[j].address # ""

\* latitude and longitude each differ by less than 0.0001 degrees
CloserThan4Decimals(h1, h2) ==
    /\ Abs(h1.latitude - h2.latitude) < 10
    /\ Abs(h1.longitude - h2.longitude) < 10

\* unique is hypotheses with some elements left out, the order kept
RECURSIVE IsSubsequence(_, _)
IsSubsequence(unique, hypotheses) ==
    IF unique = <<>> THEN TRUE
    ELSE IF hypotheses = <<>> THEN FALSE
    ELSE IF Head(unique) = Head(hypotheses)
    THEN IsSubsequence(Tail(unique), Tail(hypotheses))
    ELSE IsSubsequence(unique, Tail(hypotheses))

\* C22: after deduplication no two surviving candidates have latitude and
\* longitude that each differ by less than 0.0001 degrees; the survivors are
\* candidates of the input with all their own fields, in first-seen order,
\* the first candidate seen among them.
C22_CloseCandidatesCollapse ==
    last.op = "deduplicate" =>
        /\ \A i, j \in 1..Len(last.unique_hypotheses) :
               i # j => ~CloserThan4Decimals(last.unique_hypotheses[i],
                                             last.unique_hypotheses[j])
        /\ IsSubsequence(last.unique_hypotheses, last.hypotheses)
        /\ last.hypotheses # <<>> =>
               /\ last.unique_hypotheses # <<>>
               /\ last.unique_hypotheses[1] = last.hypotheses[1]

\* C23: two runs that write the cache under the same fingerprint write equal
\* values when the providers answer the same: the hypotheses and best_guess
\* just written are those any other request of the same fingerprint computes
\* and writes from the same image and provider outputs.
C23_WritersOfOneKeyAgree ==
    (ComputedNow /\ last.response.success) =>
        \A request \in Requests :
            LET run == Aggregate(clients, last.image, request, last.env)
                other == SuccessResponse(run, request, 0, last.env.elapsed_ms, now)
            IN  (/\ CacheKey(last.image, request) = CacheKey(last.image, last.request)
                 /\ ~run.raised)
                    => /\ other.hypotheses = last.response.hypotheses
                       /\ other.best_guess = last.response.best_guess

Outcomes(outcome) == Cardinality({id \in DOMAIN tasks : tasks[id].outcome = outcome})

\* C24: under every interleaving of process_image coroutines no counter
\* update is lost: once all calls have returned, total_requests is the number
\* of calls, successful_requests the number of calls that completed the
\* computation path and failed_requests the number that took the exception
\* path.
C24_NoLostCounterUpdate ==
    (tasks # EmptyDict /\ InFlight = {}) =>
        /\ processing_stats.total_requests = Cardinality(DOMAIN tasks)
        /\ processing_stats.successful_requests = Outcomes("success")
        /\ processing_stats.failed_requests = Outcomes("failed")

\* two calls that overlapped have returned, one computed and one failed
C24_OverlappingCallsReturned ==
    /\ InFlight = {}
    /\ \E id \in DOMAIN tasks : tasks[id].started_with # {}
    /\ Outcomes("success") >= 1 /\ Outcomes("failed") >= 1

\* C25: the stored series of latencies stays within a fixed cap however many
\* requests are processed: a cap that the number of requests exceeds is never
\* reached, so the series of a service that was called MaxCalls times holds
\* fewer than MaxCalls entries.
C25_LatencySeriesIsCapped ==
    Len(processing_stats.processing_times) < MaxCalls

\* C26: object detection contributes no hypothesis: a comprehensive run
\* returns the hypotheses and best_guess (and fails or not) as a standard run
\* on the same image and the same outputs of the other providers does,
\* whatever object localization answers.
C26_ObjectsContributeNothing ==
    (last.op = "aggregate" /\ last.request.mode = "comprehensive") =>
        \A objects \in ObjectResponses :
            LET standard ==
                    Aggregate(clients, last.image,
                              [last.request EXCEPT !.mode = "standard"],
                              [last.env EXCEPT !.objects = objects])
            IN  /\ standard.raised = last.run.raised
                /\ standard.hypotheses = last.run.hypotheses
                /\ SuccessResponse(standard, last.request, 0, 0, 0).best_guess
                       = SuccessResponse(last.run, last.request, 0, 0, 0).best_guess

\* a comprehensive run that returned hypotheses while object localization
\* reported a tower
C26_TowerDetected ==
    /\ last.op = "aggregate" /\ last.request.mode = "comprehensive"
    /\ clients.vision /\ ~last.run.raised /\ last.run.hypotheses # <<>>
    /\ ~last.env.objects.raises
    /\ \E i \in 1..Len(last.env.objects.annotations) :
           last.env.objects.annotations[i].location_like

\* C27: between calls total_requests = successful_requests + failed_requests,
\* calls served from the cache included, so that the success_rate of
\* get_stats is the fraction of the calls made that did not fail, and 0 when
\* no call was made.
C27_CountersAddUp ==
    LET stats == get_stats(processing_stats)
    IN  /\ stats.total_requests = stats.successful_requests + stats.failed_requests
        /\ stats.success_rate
               = IF stats.total_requests = 0 THEN 0
                 ELSE ((stats.total_requests - stats.failed_requests) * 1000)
                          \div stats.total_requests

\* a call of process_image has just returned success=false
FailedCall == last'.op = "process_image" /\ ~last'.response.success

\* what one step may do to the cache around a failing call: nothing is added
\* or replaced, and only an expired entry may leave the fast tier
C28_Step ==
    /\ FailedCall =>
           /\ redis_store' = redis_store
           /\ \A key \in DOMAIN memory_cache' :
                  key \in DOMAIN memory_cache /\ memory_cache'[key] = memory_cache[key]
           /\ \A key \in (DOMAIN memory_cache) \ DOMAIN memory_cache' :
                  memory_cache[key].expires_at <= now
    /\ \A key \in DOMAIN memory_cache' : memory_cache'[key].value.success
    /\ \A key \in DOMAIN redis_store' : redis_store'[key].value.success
    /\ (last'.op = "process_image" /\ last'.served_from_cache)
           => last'.response.success

C29_MetadataFollowsTheFlag ==
    ImageProcessed =>
        /\ ~last.request.include_metadata =>
               /\ last.response.image_metadata = None
               /\ last.response.processing_metadata = None
        /\ (last.request.include_metadata /\ last.response.success) =>
               /\ last.response.image_metadata # None
               /\ last.response.processing_metadata # None

\* C30: the processing metadata of a returned result tells the truth about
\* the cache: a result served from the cache has cache_hit = TRUE and a
\* result computed by invoking the providers has cache_hit = FALSE.
C30_CacheHitFlagIsTruthful ==
    (ImageProcessed /\ last.response.processing_metadata # None) =>
        last.response.processing_metadata[1].cache_hit = last.served_from_cache

====
